---- MODULE Spec2Model ----
(***************************************************************************)
(* A model of the wasset crate: the decode path of src/src/parse.rs        *)
(* (WassetParser::parse = section scan + collect_manifests, load,          *)
(* load_raw, iteration, strip_module) and the encode path of               *)
(* src/src/encode/mod.rs (encode_asset_folder / load_assets_in_folder).    *)
(*                                                                         *)
(* A module buffer is modelled by its layout: the encoding its header      *)
(* announces, the sequence of its sections (id, custom-section name, byte  *)
(* counts, contents as far as the code looks at them) and the number of    *)
(* bytes the buffer really holds.  Byte offsets are computed from the      *)
(* layout exactly as wasmparser reports them.  u32 values are kept modulo  *)
(* 2^U32Bits; usize values are unbounded integers.                         *)
(***************************************************************************)
EXTENDS Integers, Sequences, FiniteSets, TLC

VARIABLES
    module,     \* the buffer handed to WassetParser::parse
    debug,      \* TRUE: the build checks arithmetic overflow (panics), FALSE: it wraps
    pc,         \* where the program is
    idx,        \* scan: index of the next section of module.secs (0: the header)
    off,        \* scan: wasmparser's absolute offset (usize)
    offsets,    \* scan: FxHashMap<Uuid, WassetOffsets>
    manifest,   \* WassetParser.manifest.asset_ranges (the merged manifest)
    last,       \* the result of the last accessor call
    iter,       \* WassetIter: the manifest entries the iterator has not yielded yet
    round,      \* strip: 1 = the original buffer, 2 = the stripped buffer parsed again
    sidx,       \* strip_module: index of the next payload of parse_all
    output,     \* strip_module: the buffer being built
    stack,      \* strip_module: the stack of parent buffers
    first,      \* strip: the result of the first strip_module call
    operation   \* the encode walk (encode_asset_folder): EncodingOperation and its input

vars == <<module, debug, pc, idx, off, offsets, manifest, last, iter,
          round, sidx, output, stack, first, operation>>

----------------------------------------------------------------------------
(* Bounds of the model *)

\* u32 is modelled with this many bits (the program's u32 has 32)
U32Bits == 5
\* sections in a freely chosen module
MaxSections == 3
\* bytes that may be missing at the end of a truncated buffer
MaxCut == 1

U32Mod == 2 ^ U32Bits
U32Max == U32Mod - 1

\* `x as u32`
AsU32(x) == x % U32Mod

----------------------------------------------------------------------------
(* Data model: src/src/lib.rs *)

\* WassetId values
Ids == {"a", "b", "c"}
\* embedding UUIDs
Uuids == {"u1", "u2"}

\* Range<u32>
Range(s, e) == [start |-> s, end |-> e]

\* WassetManifest::default(): the empty map
EmptyManifest == [i \in {} |-> Range(0, 0)]

\* FxHashMap::insert
MapInsert(m, k, v) == [x \in DOMAIN m \cup {k} |-> IF x = k THEN v ELSE m[x]]

----------------------------------------------------------------------------
(* The module buffer *)

\* the 8 bytes of magic and version every module and component starts with
HeaderLen == 8

\* the bytes of a manifest section as rmp_serde sees them: nothing, bytes that
\* do not decode, or the encoding of a map from asset IDs to ranges
EmptyBytes == [kind |-> "empty", map |-> EmptyManifest]
GarbageBytes == [kind |-> "garbage", map |-> EmptyManifest]
ManifestBytes(m) == [kind |-> "map", map |-> m]

\* A section: id is the section id byte; name and uuid are the two parts of a
\* custom section's name (prefix class and suffix); man is the payload of a
\* manifest section; hdr counts the bytes before the payload data (id, size
\* and, for a custom section, the name; for a code section the function
\* count); len counts the data bytes; ok says that wasmparser can read the
\* section; bodies says that the data reads as a vector of function bodies;
\* inner is the section sequence of a nested module.
Sec(id, name, uuid, man, hdr, len, ok, bodies, inner) ==
    [id |-> id, name |-> name, uuid |-> uuid, man |-> man, hdr |-> hdr,
     len |-> len, ok |-> ok, bodies |-> bodies, inner |-> inner]

RECURSIVE SecsLen(_)
SecsLen(secs) ==
    IF secs = <<>> THEN 0
    ELSE Head(secs).hdr + Head(secs).len + SecsLen(Tail(secs))

\* the length of the complete buffer with this layout
FullLen(secs) == HeaderLen + SecsLen(secs)

\* what wasmparser makes of a section id under the header's encoding
SectionKind(encoding, s) ==
    IF s.id = 0 THEN "custom"
    ELSE IF encoding = "module" /\ s.id = 10 THEN "code"
    ELSE IF encoding = "component" /\ s.id \in {1, 4} THEN "nested"
    ELSE "plain"

\* idx of a scan whose parser stands on the bytes of a nested module: the
\* negated index of the next section (so that -idx - 1 sections were read)
InNested(i) == -i
\* the number of sections the scan has read
ScannedCount(i) == IF i < 0 THEN (-i) - 1 ELSE IF i = 0 THEN 0 ELSE i - 1

\* parser.parse(contents, true): the next payload and the bytes consumed, or an
\* error.  The parser is never switched, so after a nested-module section it
\* reads the nested module's own header as a section and fails on it.
ParserParse(m, i, o) ==
    IF i = 0 THEN
        IF m.buflen < HeaderLen \/ m.enc = "bad"
        THEN [res |-> "err", consumed |-> 0]
        ELSE [res |-> "Version", consumed |-> HeaderLen]
    ELSE IF o = m.buflen THEN [res |-> "End", consumed |-> 0]
    ELSE IF i < 0 \/ i > Len(m.secs) THEN [res |-> "err", consumed |-> 0]
    ELSE LET s == m.secs[i]
             k == SectionKind(m.enc, s)
         IN  IF o + s.hdr > m.buflen \/ ~s.ok THEN [res |-> "err", consumed |-> 0]
             ELSE IF k = "code" THEN [res |-> "CodeSectionStart", consumed |-> s.hdr]
             ELSE IF k = "nested" THEN [res |-> "ModuleSection", consumed |-> s.hdr]
             ELSE IF o + s.hdr + s.len > m.buflen THEN [res |-> "err", consumed |-> 0]
             ELSE IF k = "custom" THEN [res |-> "CustomSection", consumed |-> s.hdr + s.len]
             ELSE [res |-> "Section", consumed |-> s.hdr + s.len]

\* WassetOffsets::default()
DefaultOffsets == [data_offset |-> 0, manifest |-> EmptyBytes]

\* offsets.entry(id).or_default()
EntryOrDefault(offs, u) == IF u \in DOMAIN offs THEN offs[u] ELSE DefaultOffsets

\* parse_module_custom_section: [res, offsets]; dataOff is reader.data_offset()
ParseModuleCustomSection(s, dataOff, offs) ==
    IF s.name = "manifest" THEN
        IF s.uuid \notin Uuids THEN [res |-> "err", offsets |-> offs]
        ELSE [res |-> "ok",
              offsets |-> MapInsert(offs, s.uuid,
                  [EntryOrDefault(offs, s.uuid) EXCEPT !.manifest = s.man])]
    ELSE IF s.name = "data" THEN
        IF s.uuid \notin Uuids THEN [res |-> "err", offsets |-> offs]
        ELSE [res |-> "ok",
              offsets |-> MapInsert(offs, s.uuid,
                  [EntryOrDefault(offs, s.uuid) EXCEPT !.data_offset = AsU32(dataOff)])]
    ELSE [res |-> "ok", offsets |-> offs]

\* One turn of the loop of WassetParser::parse
ScanStep ==
    /\ pc = "scan"
    /\ LET p == ParserParse(module, idx, off)
           s == module.secs[idx]
           nextIdx == IF p.res = "ModuleSection" THEN InNested(idx + 1) ELSE idx + 1
       IN  CASE p.res = "err" ->
                   /\ pc' = "err"
                   /\ UNCHANGED <<idx, off, offsets>>
             [] p.res = "End" ->
                   /\ pc' = "collect"
                   /\ UNCHANGED <<idx, off, offsets>>
             [] p.res = "CodeSectionStart" ->
                   \* contents = &contents[size as usize..]
                   IF s.len > module.buflen - (off + p.consumed)
                   THEN /\ pc' = "panic"
                        /\ UNCHANGED <<idx, off, offsets>>
                   ELSE /\ off' = off + p.consumed + s.len
                        /\ idx' = nextIdx
                        /\ UNCHANGED <<pc, offsets>>
             [] p.res = "CustomSection" ->
                   LET r == ParseModuleCustomSection(s, off + s.hdr, offsets)
                   IN  IF r.res = "err"
                       THEN /\ pc' = "err"
                            /\ UNCHANGED <<idx, off, offsets>>
                       ELSE /\ offsets' = r.offsets
                            /\ off' = off + p.consumed
                            /\ idx' = nextIdx
                            /\ UNCHANGED pc
             [] OTHER ->
                   /\ off' = off + p.consumed
                   /\ idx' = nextIdx
                   /\ UNCHANGED <<pc, offsets>>
    /\ UNCHANGED <<module, debug, manifest, last, iter, round, sidx, output, stack, first, operation>>

----------------------------------------------------------------------------
(* collect_manifests *)

\* rmp_serde::from_slice::<WassetManifest>
DeserializeManifest(bytes) ==
    IF bytes.kind = "map" THEN [res |-> "ok", map |-> bytes.map]
    ELSE [res |-> "err", map |-> EmptyManifest]

\* u32 + u32 of the build: [res, val]
AddU32(x, y, dbg) ==
    IF x + y > U32Max
    THEN IF dbg THEN [res |-> "panic", val |-> 0]
         ELSE [res |-> "ok", val |-> (x + y) % U32Mod]
    ELSE [res |-> "ok", val |-> x + y]

\* the inner loop: every entry of one manifest, shifted by d, inserted into acc
InsertShifted(acc, m, d, dbg) ==
    IF \E i \in DOMAIN m : \/ AddU32(m[i].start, d, dbg).res = "panic"
                           \/ AddU32(m[i].end, d, dbg).res = "panic"
    THEN [res |-> "panic", man |-> acc]
    ELSE [res |-> "ok",
          man |-> [i \in DOMAIN acc \cup DOMAIN m |->
                     IF i \in DOMAIN m
                     THEN Range(AddU32(m[i].start, d, dbg).val, AddU32(m[i].end, d, dbg).val)
                     ELSE acc[i]]]

\* the orders in which a hash map may hand out its keys
Orders(S) == {f \in [1..Cardinality(S) -> S] : \A i, j \in DOMAIN f : i # j => f[i] # f[j]}

\* the outer loop over offsets.into_values(), taken in the order ord
RECURSIVE CollectFrom(_, _, _, _)
CollectFrom(ord, offs, acc, dbg) ==
    IF ord = <<>> THEN [res |-> "ok", man |-> acc]
    ELSE LET o == offs[Head(ord)]
             d == DeserializeManifest(o.manifest)
         IN  IF d.res = "err" THEN [res |-> "err", man |-> EmptyManifest]
             ELSE LET r == InsertShifted(acc, d.map, o.data_offset, dbg)
                  IN  IF r.res = "panic" THEN [res |-> "panic", man |-> EmptyManifest]
                      ELSE CollectFrom(Tail(ord), offs, r.man, dbg)

\* collect_manifests(offsets) with the keys taken in the order ord
CollectManifests(ord, offs, dbg) == CollectFrom(ord, offs, EmptyManifest, dbg)

\* The end of WassetParser::parse: collect_manifests, then Ok(Self) or the error
Collect ==
    /\ pc = "collect"
    /\ \E ord \in Orders(DOMAIN offsets) :
          LET r == CollectManifests(ord, offsets, debug)
          IN  /\ pc' = IF r.res = "ok" THEN "ready" ELSE r.res
              /\ manifest' = r.man
    /\ UNCHANGED <<module, debug, idx, off, offsets, last, iter, round, sidx, output, stack, first, operation>>

----------------------------------------------------------------------------
(* load, load_raw, iteration *)

\* load_by_range with a check of the end only
LoadByRange_EndOnly(m, r) ==
    IF r.end <= m.buflen
    THEN [res |-> "ok", start |-> r.start, end |-> r.end]
    ELSE [res |-> "err", start |-> 0, end |-> 0]

\* load_by_range: self.module.get(start as usize..end as usize)
LoadByRange(m, r) ==
    IF r.start <= r.end /\ r.end <= m.buflen
    THEN [res |-> "ok", start |-> r.start, end |-> r.end]
    ELSE [res |-> "err", start |-> 0, end |-> 0]

NoCall == [op |-> "none", id |-> "", res |-> "none", start |-> 0, end |-> 0]

\* load with "index out of range" for an ID the manifest does not hold
LoadResult_MissingIsErr(op, m, man, id, decodes) ==
    IF id \in DOMAIN man /\ LoadByRange(m, man[id]).res = "ok"
    THEN [op |-> op, id |-> id, res |-> IF op # "load_raw" /\ ~decodes THEN "err" ELSE "some",
          start |-> man[id].start, end |-> man[id].end]
    ELSE [op |-> op, id |-> id, res |-> "err", start |-> 0, end |-> 0]

\* load with an iterator that slices the buffer without the bounds check
LoadResult_IterUnchecked(op, m, man, id, decodes) ==
    IF id \in DOMAIN man
    THEN IF op # "next" /\ LoadByRange(m, man[id]).res = "err"
         THEN [op |-> op, id |-> id, res |-> "err", start |-> 0, end |-> 0]
         ELSE [op |-> op, id |-> id, res |-> IF op # "load_raw" /\ ~decodes THEN "err" ELSE "some",
               start |-> man[id].start, end |-> man[id].end]
    ELSE [op |-> op, id |-> id, res |-> "none", start |-> 0, end |-> 0]

\* load, load_raw and the iterator's item for id.  The result of
\* WassetItem::deserialize on a slice is decided by the bytes of the buffer:
\* decodes says whether they decode to an asset record
LoadResult(op, m, man, id, decodes) ==
    IF id \in DOMAIN man
    THEN LET s == LoadByRange(m, man[id])
         IN  IF s.res = "err" THEN [op |-> op, id |-> id, res |-> "err", start |-> 0, end |-> 0]
             ELSE IF op # "load_raw" /\ ~decodes
                  THEN [op |-> op, id |-> id, res |-> "err", start |-> s.start, end |-> s.end]
                  ELSE [op |-> op, id |-> id, res |-> "some", start |-> s.start, end |-> s.end]
    ELSE [op |-> op, id |-> id, res |-> "none", start |-> 0, end |-> 0]

\* WassetParser::load
Load ==
    /\ pc = "ready"
    /\ \E id \in Ids, decodes \in BOOLEAN :
          last' = LoadResult("load", module, manifest, id, decodes)
    /\ UNCHANGED <<module, debug, pc, idx, off, offsets, manifest, iter, round, sidx, output, stack, first, operation>>

\* WassetParser::load_raw
LoadRaw ==
    /\ pc = "ready"
    /\ \E id \in Ids :
          last' = LoadResult("load_raw", module, manifest, id, TRUE)
    /\ UNCHANGED <<module, debug, pc, idx, off, offsets, manifest, iter, round, sidx, output, stack, first, operation>>

\* IntoIterator for &WassetParser: a for loop starts with a fresh iterator over
\* every manifest entry (src/wasset_example/src/main.rs)
IntoIter ==
    /\ pc = "ready"
    /\ pc' = "iter"
    /\ iter' = [live |-> TRUE, left |-> DOMAIN manifest]
    /\ last' = NoCall
    /\ UNCHANGED <<module, debug, idx, off, offsets, manifest, round, sidx, output, stack, first, operation>>

\* WassetIter::next: Some((id, result)) for an entry not yet yielded; None ends the loop
IterNext ==
    /\ pc = "iter"
    /\ IF iter.left = {}
       THEN /\ last' = [NoCall EXCEPT !.op = "next"]
            /\ iter' = [iter EXCEPT !.live = FALSE]
            /\ pc' = "ready"
       ELSE \E id \in iter.left, decodes \in BOOLEAN :
              /\ last' = LoadResult("next", module, manifest, id, decodes)
              /\ iter' = [iter EXCEPT !.left = @ \ {id}]
              /\ UNCHANGED pc
    /\ UNCHANGED <<module, debug, idx, off, offsets, manifest, round, sidx, output, stack, first, operation>>

----------------------------------------------------------------------------
(* strip_module *)

NoSec == Sec(0, "", "", EmptyBytes, 0, 0, TRUE, FALSE, <<>>)
Event(ev, s, from, to) == [ev |-> ev, sec |-> s, from |-> from, to |-> to]

Min(x, y) == IF x < y THEN x ELSE y

\* the encoding of the header of a nested module (section 1) or component (section 4)
InnerEncoding(s) == IF s.id = 1 THEN "module" ELSE "component"

\* Parser::new(0).parse_all(buffer): the payloads of the sections secs that
\* start at offset o of a module whose bytes end at lim, nested modules
\* included, up to the End of that module or the first error.  A section
\* payload carries the range of its data.
RECURSIVE ParseAllFrom(_, _, _, _)
ParseAllFrom(encoding, secs, o, lim) ==
    IF o = lim THEN <<Event("End", NoSec, o, o)>>
    ELSE IF secs = <<>> THEN <<Event("Err", NoSec, o, o)>>
    ELSE LET s == Head(secs)
             k == SectionKind(encoding, s)
             from == o + s.hdr
             to == o + s.hdr + s.len
         IN  IF from > lim \/ ~s.ok THEN <<Event("Err", NoSec, o, o)>>
             ELSE IF k = "code" THEN
                 <<Event("CodeSectionStart", s, from, to)>>
                 \o (IF to > lim \/ ~s.bodies THEN <<Event("Err", NoSec, o, o)>>
                     ELSE ParseAllFrom(encoding, Tail(secs), to, lim))
             ELSE IF k = "nested" THEN
                 LET ilim == Min(to, lim)
                     inner == IF ilim - from < HeaderLen THEN <<Event("Err", NoSec, from, from)>>
                              ELSE <<Event("Version", NoSec, from, from + HeaderLen)>>
                                   \o ParseAllFrom(InnerEncoding(s), s.inner, from + HeaderLen, ilim)
                 IN  <<Event(IF s.id = 1 THEN "ModuleSection" ELSE "ComponentSection", s, from, to)>>
                     \o inner
                     \o (IF inner[Len(inner)].ev = "Err" THEN <<>>
                         ELSE ParseAllFrom(encoding, Tail(secs), to, lim))
             ELSE IF to > lim THEN <<Event("Err", NoSec, o, o)>>
             ELSE <<Event(IF k = "custom" THEN "CustomSection" ELSE "Section", s, from, to)>>
                  \o ParseAllFrom(encoding, Tail(secs), to, lim)

\* every payload parse_all yields for the buffer m
ParseAll(m) ==
    IF m.buflen < HeaderLen \/ m.enc = "bad" THEN <<Event("Err", NoSec, 0, 0)>>
    ELSE <<Event("Version", NoSec, 0, HeaderLen)>>
         \o ParseAllFrom(m.enc, m.secs, HeaderLen, m.buflen)

\* the pieces of an output buffer: Module::HEADER, a RawSection (id, size,
\* the bytes of the section's data) and a nested buffer framed as a
\* core-module section (ComponentSectionId::CoreModule, size, bytes)
HeaderChunk == [kind |-> "header", id |-> 0, sec |-> NoSec, body |-> <<>>]
SectionChunk(s) == [kind |-> "section", id |-> s.id, sec |-> s, body |-> <<>>]
FrameChunk(buf) == [kind |-> "frame", id |-> 1, sec |-> NoSec, body |-> buf]

\* a strip_module that knew the manifest prefix only
HasAssetPrefix_ManifestOnly(s) == s.name = "manifest"

\* c.name().starts_with(manifest prefix) || c.name().starts_with(data prefix)
HasAssetPrefix(s) == s.name \in {"manifest", "data"}

\* strip_module up to its loop: two empty vectors
StripStart ==
    /\ pc = "ready"
    /\ pc' = "strip"
    /\ sidx' = 1
    /\ output' = <<>>
    /\ stack' = <<>>
    /\ UNCHANGED <<module, debug, idx, off, offsets, manifest, last, iter, round, first, operation>>

\* strip_module: the payload p has a section to copy (as_section and the
\* custom-section test), and the bytes of it are in the buffer
CopiesSection(p) ==
    /\ p.ev \in {"Section", "CustomSection", "CodeSectionStart", "ComponentSection"}
    /\ ~(p.ev = "CustomSection" /\ HasAssetPrefix(p.sec))

\* One turn of the loop of strip_module, for the payload at sidx
StripStep ==
    /\ pc = "strip"
    /\ LET p == ParseAll(module)[sidx]
       IN  CASE p.ev = "Err" ->
                   /\ pc' = "strip_err"
                   /\ UNCHANGED <<sidx, output, stack>>
             [] p.ev = "Version" ->
                   /\ output' = Append(output, HeaderChunk)
                   /\ sidx' = sidx + 1
                   /\ UNCHANGED <<pc, stack>>
             [] p.ev = "ModuleSection" ->
                   /\ stack' = Append(stack, output)
                   /\ output' = <<>>
                   /\ sidx' = sidx + 1
                   /\ UNCHANGED pc
             [] p.ev = "End" ->
                   IF stack = <<>>
                   THEN /\ pc' = "stripped"
                        /\ UNCHANGED <<sidx, output, stack>>
                   ELSE /\ output' = Append(stack[Len(stack)], FrameChunk(output))
                        /\ stack' = SubSeq(stack, 1, Len(stack) - 1)
                        /\ sidx' = sidx + 1
                        /\ UNCHANGED pc
             [] OTHER ->
                   IF CopiesSection(p)
                   THEN IF p.to > module.buflen
                        THEN \* &self.module[range]
                             /\ pc' = "panic"
                             /\ UNCHANGED <<sidx, output, stack>>
                        ELSE /\ output' = Append(output, SectionChunk(p.sec))
                             /\ sidx' = sidx + 1
                             /\ UNCHANGED <<pc, stack>>
                   ELSE /\ sidx' = sidx + 1
                        /\ UNCHANGED <<pc, output, stack>>
    /\ UNCHANGED <<module, debug, idx, off, offsets, manifest, last, iter, round, first, operation>>

----------------------------------------------------------------------------
(* The buffers WassetParser::parse is run on *)

NoSecs == <<>>

\* a custom section "__wasset_manifest:<uuid>" whose payload is bytes
ManSec(u, bytes) ==
    Sec(0, "manifest", u, bytes, 2, IF bytes.kind = "empty" THEN 0 ELSE 1, TRUE, FALSE, NoSecs)
\* a custom section "__wasset_data:<uuid>" with n bytes of data
DataSec(u, n) == Sec(0, "data", u, EmptyBytes, 2, n, TRUE, FALSE, NoSecs)
\* a custom section with another name
OtherCustom == Sec(0, "other", "", EmptyBytes, 2, 1, TRUE, FALSE, NoSecs)
\* section id 10: the code section of a module, the import section of a component
Sec10(n, bodies) == Sec(10, "", "", EmptyBytes, 2, n, TRUE, bodies, NoSecs)
\* section id 7 (export section / component type section), well-formed or not
Sec7(n, ok) == Sec(7, "", "", EmptyBytes, 2, n, ok, FALSE, NoSecs)
\* section id 1: the type section of a module, a nested core module of a component
Sec1(inner) == Sec(1, "", "", EmptyBytes, 2, FullLen(inner), TRUE, FALSE, inner)
\* section id 4: the table section of a module, a nested component of a component
Sec4(inner) == Sec(4, "", "", EmptyBytes, 2, FullLen(inner), TRUE, FALSE, inner)

\* manifests as an encoder writes them for a data blob of 3 bytes
MA == [i \in {"a"} |-> Range(0, 2)]
MC == [i \in {"c"} |-> Range(1, 3)]
MAB == [i \in {"a", "b"} |-> IF i = "a" THEN Range(0, 1) ELSE Range(1, 3)]
\* manifests no encoder writes: a reversed range, a range that ends at u32::MAX
MRev == [i \in {"a"} |-> Range(2, 1)]
MFar == [i \in {"c"} |-> Range(1, U32Max)]

\* the sections a freely chosen buffer is made of
FreeShapes ==
    { ManSec("u1", ManifestBytes(MA)), ManSec("u1", ManifestBytes(MRev)),
      ManSec("u2", ManifestBytes(MFar)), ManSec("u1", GarbageBytes),
      ManSec("bad", ManifestBytes(MA)),
      DataSec("u1", 3), DataSec("u2", 3),
      Sec10(2, TRUE), Sec7(1, FALSE), Sec1(NoSecs) }

SeqsUpTo(S, n) == UNION {[1..k -> S] : k \in 0..n}

\* two embeddings, each a manifest section and a data section of its own UUID,
\* in any order, with at most one other section put somewhere between them
Embedding1 == {ManSec("u1", ManifestBytes(MAB)), DataSec("u1", 3)}
Embedding2(m) == {ManSec("u2", ManifestBytes(m)), DataSec("u2", 3)}
\* a section that fills the rest of 2^U32Bits bytes
BigSec == Sec7(U32Mod - 2, TRUE)
Fillers == {BigSec, OtherCustom}

InsertAt(s, k, x) == SubSeq(s, 1, k) \o <<x>> \o SubSeq(s, k + 1, Len(s))

EmbeddingLayouts ==
    LET base == UNION {Orders(Embedding1 \cup Embedding2(m)) : m \in {MC, MA}}
    IN  base \cup {InsertAt(s, k, x) : s \in base, k \in 0..4, x \in Fillers}

\* a buffer: the encoding of its header, its sections, the bytes it holds
Buffer(encoding, secs, cut) ==
    [enc |-> encoding, secs |-> secs,
     buflen |-> IF FullLen(secs) >= cut THEN FullLen(secs) - cut ELSE 0]

ParseBuffers ==
    {Buffer(e, s, c) : e \in {"module", "component"}, s \in SeqsUpTo(FreeShapes, MaxSections),
                       c \in 0..MaxCut}
    \cup {Buffer("bad", NoSecs, 0)}
    \cup {Buffer("module", s, 0) : s \in EmbeddingLayouts}

----------------------------------------------------------------------------
NoOffsets == [u \in {} |-> DefaultOffsets]
NoIter == [live |-> FALSE, left |-> {}]
NoOutput == <<>>
NoEncode == [pc |-> "idle"]

\* the state in which WassetParser::parse(module) starts
StartParse(m) ==
    /\ module = m
    /\ pc = "scan"
    /\ idx = 0
    /\ off = 0
    /\ offsets = NoOffsets
    /\ manifest = EmptyManifest
    /\ last = NoCall
    /\ iter = NoIter
    /\ round = 1
    /\ sidx = 0
    /\ output = NoOutput
    /\ stack = <<>>
    /\ first = NoOutput

InitParse ==
    /\ debug \in BOOLEAN
    /\ operation = NoEncode
    /\ \E m \in ParseBuffers : StartParse(m)

NextParse == ScanStep \/ Collect \/ Load \/ LoadRaw \/ IntoIter \/ IterNext

\* parse on a buffer, then any calls of load, load_raw and the iterator
SpecParse == InitParse /\ [][NextParse]_vars

----------------------------------------------------------------------------
(* Stripping twice *)

\* the layout of the buffer an output vector holds: what follows the header
\* chunk, read as sections again (a frame is a section with id 1 whose data is
\* the nested buffer; the 8 bytes of a header further on do not read as a
\* section)
RECURSIVE ChunkSecs(_)
ChunkSecs(buf) ==
    IF buf = <<>> THEN <<>>
    ELSE LET c == Head(buf)
         IN  (IF c.kind = "section" THEN <<c.sec>>
              ELSE IF c.kind = "frame" THEN <<Sec1(ChunkSecs(Tail(c.body)))>>
              ELSE <<Sec7(HeaderLen - 2, FALSE)>>)
             \o ChunkSecs(Tail(buf))

\* the bytes of Ok(output) as a buffer: Module::HEADER announces a core module
OutputBuffer(buf) == Buffer("module", ChunkSecs(Tail(buf)), 0)

\* the stripped bytes are handed to WassetParser::parse again
Reparse ==
    /\ pc = "stripped"
    /\ round = 1
    /\ first' = output
    /\ round' = 2
    /\ module' = OutputBuffer(output)
    /\ pc' = "scan"
    /\ idx' = 0
    /\ off' = 0
    /\ offsets' = NoOffsets
    /\ manifest' = EmptyManifest
    /\ sidx' = 0
    /\ output' = <<>>
    /\ stack' = <<>>
    /\ UNCHANGED <<debug, last, iter, operation>>

\* the sections a buffer that is stripped is made of
StripShapes ==
    { ManSec("u1", ManifestBytes(MA)), DataSec("u1", 3), OtherCustom,
      Sec10(2, TRUE), Sec10(2, FALSE), Sec7(1, TRUE),
      Sec1(NoSecs), Sec1(<<ManSec("u2", ManifestBytes(MC)), DataSec("u2", 3), OtherCustom>>),
      Sec4(NoSecs) }

StripBuffers ==
    {Buffer(e, s, c) : e \in {"module", "component"}, s \in SeqsUpTo(StripShapes, MaxSections),
                       c \in 0..MaxCut}

InitStrip ==
    /\ debug \in BOOLEAN
    /\ operation = NoEncode
    /\ \E m \in StripBuffers : StartParse(m)

NextStrip == ScanStep \/ Collect \/ StripStart \/ StripStep \/ Reparse

\* parse on a buffer, strip_module, then parse and strip_module on the result
SpecStrip == InitStrip /\ [][NextStrip]_vars

-----------------------------------------------------------------------------
(* encode_asset_folder: the walk over an asset folder.

   A folder is its Wasset.toml (absent, parsed, malformed TOML, or there but
   not readable as UTF-8 text), whether
   read_dir lists it, and its entries by name: MaxFiles files, each named by
   a stem and an extension, and the directory SubDir.  A file is what the walk finds out about it: the entry
   of its file name in the folder's metadata table, whether it can be read,
   what the encoder A answers for it, and for a record the number of bytes
   write_named appends, or that write_named fails.  The data vector is the
   records appended to it, in order: for each one the file it was encoded
   from, its byte count and the id it was appended under. *)

MaxFiles == 2

\* names are <<stem, extension>>; the first two files differ in the extension only
SubDir == <<"sub", "">>
Stems == <<"a", "b", "c", "d">>
FileNames == {<<Stems[(n + 1) \div 2], IF n % 2 = 1 THEN "txt" ELSE "bin">> : n \in 1..MaxFiles}
\* a leaf named by the whole file name
FileStem_WithExtension(name) == name[1] \o "." \o name[2]

\* name_for_path(&path.with_extension(""))
FileStem(name) == name[1]

\* a record that brings the length of the data vector over u32::MAX
BigRecord == U32Mod - 1

File(meta, readable, answer, size, writes) ==
    [kind |-> "file", meta |-> meta, readable |-> readable, answer |-> answer,
     size |-> size, writes |-> writes]

Accepted(n)     == File("none", TRUE, "some", n, TRUE)
AcceptedTable   == File("table", TRUE, "some", 1, TRUE)
Declined        == File("none", TRUE, "none", 0, TRUE)
\* A::encode returns Err(e): e is the encoder's own WassetError, of either class
EncoderError    == File("none", TRUE, "Serialize", 0, TRUE)
EncoderErrorDeserialize == File("none", TRUE, "Deserialize", 0, TRUE)
Unreadable      == File("none", FALSE, "some", 1, TRUE)
Unserializable  == File("none", TRUE, "some", 1, FALSE)
BadMetadata     == File("value", TRUE, "some", 1, TRUE)
\* an entry that is neither a directory nor a file
Special         == [kind |-> "special"]
Dir(folder)     == [kind |-> "dir", folder |-> folder]

\* what a folder without a parsed Wasset.toml can hold, and what one with it can
PlainKinds == {Accepted(1), Accepted(2), Accepted(BigRecord), Declined,
               EncoderError, EncoderErrorDeserialize, Unreadable, Unserializable,
               Special}
TableKinds == PlainKinds \cup {AcceptedTable, BadMetadata}

Folder(toml, listable, entries) ==
    [toml |-> toml, listable |-> listable, entries |-> entries]

\* the functions from a subset of names to kinds
Entries(names, kinds) == UNION {[S -> kinds] : S \in SUBSET names}

SubKinds == {Accepted(1), Declined, EncoderError}
SubFolders ==
    {Folder("absent", TRUE, e) : e \in Entries({<<"a", "txt">>}, SubKinds)}
        \cup {Folder("malformed", TRUE, <<>>), Folder("absent", FALSE, <<>>)}

\* f with the directory SubDir added to it
WithSub(f, sub) ==
    [n \in DOMAIN f \cup {SubDir} |-> IF n = SubDir THEN Dir(sub) ELSE f[n]]

RootEntries(kinds) ==
    LET files == Entries(FileNames, kinds)
    IN  files \cup {WithSub(f, sub) : f \in files, sub \in SubFolders}

RootFolders ==
    {Folder("absent", TRUE, e) : e \in RootEntries(PlainKinds)}
        \cup {Folder("ok", TRUE, e) : e \in RootEntries(TableKinds)}
        \cup {Folder("unreadable", TRUE, e) : e \in Entries(FileNames, {Accepted(1)})}
        \cup {Folder("malformed", TRUE, <<>>), Folder("absent", FALSE, <<>>)}

\* the path given to encode_asset_folder: one with a parent and a name, one
\* without a parent ("/"), one without a final name ("assets/..")
RootPaths == {"named", "noparent", "noname"}

\* Vec<u8>::len of the data vector
RECURSIVE DataLen(_)
DataLen(data) == IF data = <<>> THEN 0 ELSE Head(data).len + DataLen(Tail(data))

\* a Uuid::new_v4 that drew the same value every time
NewV4_Same(drawn) == 1

\* Uuid::new_v4: a value no earlier call has given, drawn being the number of
\* earlier calls
NewV4(drawn) == drawn + 1

\* AssetHierarchy::default()
RootHierarchy == [p \in {<<>>} |-> <<>>]

\* sub_hierarchies.entry(name).or_default() below the node at path
EntryOrDefaultNode(hier, path) ==
    IF path \in DOMAIN hier THEN hier
    ELSE [p \in DOMAIN hier \cup {path} |-> IF p \in DOMAIN hier THEN hier[p] ELSE <<>>]

Frame(path, folder) == [path |-> path, folder |-> folder, left |-> DOMAIN folder.entries]

\* return Err(e), e of the given class
Fail(op, class) == [op EXCEPT !.pc = "err", !.error = class]

\* load_assets_in_folder up to its loop: the metadata table (the default table
\* whenever read_to_string fails) and read_dir
EnterFolder(op, path, folder) ==
    IF folder.toml = "malformed" \/ ~folder.listable
    THEN Fail(op, "Serialize")
    ELSE [op EXCEPT !.frames = Append(@, Frame(path, folder))]

\* encode_asset_folder up to the first turn of the loop
EncodeStart ==
    /\ operation.pc = "idle"
    /\ operation' =
          IF operation.root = "noparent"
          THEN Fail(operation, "Serialize")
          ELSE EnterFolder([operation EXCEPT !.pc = "walk"], <<>>, operation.tree)
    /\ UNCHANGED <<module, debug, pc, idx, off, offsets, manifest, last, iter,
                   round, sidx, output, stack, first>>

\* the body of the loop for a file: metadata, read, A::encode, and for a
\* record the id, the range and the leaf
EncodeFile(op, path, name, f) ==
    IF f.meta = "value" \/ ~f.readable
    THEN Fail(op, "Serialize")
    ELSE IF f.answer \in {"Serialize", "Deserialize"}
    THEN Fail(op, f.answer)
    ELSE IF f.answer = "none"
    THEN op
    ELSE LET id    == NewV4(op.drawn)
             start == AsU32(DataLen(op.data))
             data  == Append(op.data, [file |-> Append(path, name), len |-> f.size, id |-> id])
             end   == AsU32(DataLen(data))
         IN  IF ~f.writes
             THEN Fail([op EXCEPT !.drawn = @ + 1], "Serialize")
             ELSE [op EXCEPT !.drawn = @ + 1,
                             !.data = data,
                             !.manifest = MapInsert(@, id, Range(start, end)),
                             !.hier[path] = Append(@, [name |-> FileStem(name), id |-> id])]

\* One turn of the loop of load_assets_in_folder in the innermost folder
\* entered, on any entry read_dir has not yet given
WalkEntry ==
    /\ operation.pc = "walk"
    /\ operation.frames # <<>>
    /\ LET depth == Len(operation.frames)
           top   == operation.frames[depth]
       IN  /\ top.left # {}
           /\ \E n \in top.left :
                LET e    == top.folder.entries[n]
                    op   == [operation EXCEPT !.frames[depth].left = @ \ {n}]
                    path == Append(top.path, n)
                IN  operation' =
                       CASE e.kind = "dir" ->
                              EnterFolder([op EXCEPT !.hier = EntryOrDefaultNode(@, path)],
                                          path, e.folder)
                         [] e.kind = "file" -> EncodeFile(op, top.path, n, e)
                         [] OTHER -> op
    /\ UNCHANGED <<module, debug, pc, idx, off, offsets, manifest, last, iter,
                   round, sidx, output, stack, first>>

\* load_assets_in_folder returns Ok(()) to the call for the parent folder
FolderReturn ==
    /\ operation.pc = "walk"
    /\ Len(operation.frames) > 1
    /\ operation.frames[Len(operation.frames)].left = {}
    /\ operation' = [operation EXCEPT !.frames = SubSeq(@, 1, Len(@) - 1)]
    /\ UNCHANGED <<module, debug, pc, idx, off, offsets, manifest, last, iter,
                   round, sidx, output, stack, first>>

\* name_for_path(folder) for a folder whose path ends in a name
FolderName == "assets"

\* FxHashMap::from_iter([(name, hierarchy)])
Named(name, hierarchy) == [n \in {name} |-> hierarchy]

\* load_assets_in_folder returns Ok(()) to encode_asset_folder, which names
\* the hierarchy and serializes the manifest
EncodeFinish ==
    /\ operation.pc = "walk"
    /\ Len(operation.frames) = 1
    /\ operation.frames[1].left = {}
    /\ operation' =
          IF operation.root = "noname"
          THEN Fail([operation EXCEPT !.frames = <<>>], "Serialize")
          ELSE [operation EXCEPT !.pc = "done", !.frames = <<>>,
                                 !.bundle = [data |-> operation.data,
                                             encoded_assets |-> Named(FolderName, operation.hier),
                                             manifest |-> ManifestBytes(operation.manifest)]]
    /\ UNCHANGED <<module, debug, pc, idx, off, offsets, manifest, last, iter,
                   round, sidx, output, stack, first>>

NoBundle == [data |-> <<>>, encoded_assets |-> <<>>,
             manifest |-> EmptyBytes]

\* the locals of encode_asset_folder(folder) at its first line
StartEncode(root, tree) ==
    operation = [pc |-> "idle", root |-> root, tree |-> tree, data |-> <<>>,
                 manifest |-> EmptyManifest, hier |-> RootHierarchy,
                 frames |-> <<>>, drawn |-> 0, bundle |-> NoBundle, error |-> "none"]

InitEncode ==
    /\ \E root \in RootPaths, tree \in RootFolders : StartEncode(root, tree)
    /\ module = Buffer("module", NoSecs, 0)
    /\ debug = FALSE
    /\ pc = "idle"
    /\ idx = 0
    /\ off = 0
    /\ offsets = NoOffsets
    /\ manifest = EmptyManifest
    /\ last = NoCall
    /\ iter = NoIter
    /\ round = 1
    /\ sidx = 0
    /\ output = NoOutput
    /\ stack = <<>>
    /\ first = NoOutput

NextEncode == EncodeStart \/ WalkEntry \/ FolderReturn \/ EncodeFinish

\* encode_asset_folder on a folder, the entries of each folder in any order
SpecEncode == InitEncode /\ [][NextEncode]_vars

----------------------------------------------------------------------------
(* What the claims speak of *)

\* parse has returned: Ok(parser), Err(Deserialize) or a panic
ParseReturned == pc \in {"ready", "iter", "err", "panic"}
ParseSucceeded == pc \in {"ready", "iter"}

\* the sections the scan has read
Scanned == {i \in 1..Len(module.secs) : i <= ScannedCount(idx)}
ManifestSecs(u) == {i \in Scanned : module.secs[i].name = "manifest" /\ module.secs[i].uuid = u}
DataSecs(u) == {i \in Scanned : module.secs[i].name = "data" /\ module.secs[i].uuid = u}

\* the offset in the buffer at which the payload data of section i starts
DataStart(i) == FullLen(SubSeq(module.secs, 1, i - 1)) + module.secs[i].hdr

\* start <= end <= length of the module buffer
InBounds(r) == r.start <= r.end /\ r.end <= module.buflen

\* C1 (as claimed): parse never succeeds on a buffer in which some UUID has a
\* manifest section but no data section, or a data section but no manifest
\* section: it fails with a Deserialize error.
C1_PartialEmbeddingFails ==
    ParseSucceeded =>
        \A u \in Uuids : (ManifestSecs(u) = {}) <=> (DataSecs(u) = {})

\* C1: the half of the claim the code keeps: a UUID with a data section and no
\* manifest section makes parse fail (the missing manifest is the empty slice,
\* which does not deserialize).
C1_DataWithoutManifestFails ==
    ParseSucceeded => \A u \in Uuids : DataSecs(u) # {} => ManifestSecs(u) # {}

C1_DataOnlyWitness ==
    /\ pc = "err"
    /\ \E u \in Uuids : DataSecs(u) # {} /\ ManifestSecs(u) = {}
    /\ ScannedCount(idx) = Len(module.secs)

\* the UUIDs of which the scan has read a manifest or a data section
EmbUuids == {u \in Uuids : ManifestSecs(u) # {} \/ DataSecs(u) # {}}
TheManifestSec(u) == module.secs[CHOOSE i \in ManifestSecs(u) : TRUE]
TheDataSec(u) == CHOOSE i \in DataSecs(u) : TRUE
\* the manifest an embedding was encoded with, and where its data really starts
LocalMap(u) == TheManifestSec(u).man.map
TrueDataOffset(u) == DataStart(TheDataSec(u))

\* u is an embedding as the encoder and the macro produce it: one manifest
\* section, one data section, every range inside the data blob
WellEncoded(u) ==
    /\ Cardinality(ManifestSecs(u)) = 1
    /\ Cardinality(DataSecs(u)) = 1
    /\ TheManifestSec(u).man.kind = "map"
    /\ \A i \in DOMAIN LocalMap(u) :
          /\ LocalMap(u)[i].start <= LocalMap(u)[i].end
          /\ LocalMap(u)[i].end <= module.secs[TheDataSec(u)].len

\* two or more independently encoded embeddings: the asset IDs are fresh
\* UUIDs, so no two embeddings share one
IndependentEmbeddings ==
    /\ Cardinality(EmbUuids) >= 2
    /\ \A u \in EmbUuids : WellEncoded(u)
    /\ \A u, v \in EmbUuids : u # v => DOMAIN LocalMap(u) \cap DOMAIN LocalMap(v) = {}

\* C2 (as claimed): after a successful parse of a buffer that holds two or more
\* independently encoded embeddings, every asset ID of every embedding maps to
\* its local range shifted by the offset at which that embedding's data
\* section payload starts, and the merged manifest holds exactly these entries.
C2_MergeShiftsByOwnOffset ==
    (ParseSucceeded /\ IndependentEmbeddings) =>
        /\ DOMAIN manifest = UNION {DOMAIN LocalMap(u) : u \in EmbUuids}
        /\ \A u \in EmbUuids : \A i \in DOMAIN LocalMap(u) \cap DOMAIN manifest :
              manifest[i] = Range(LocalMap(u)[i].start + TrueDataOffset(u),
                                  LocalMap(u)[i].end + TrueDataOffset(u))

\* C3 (as claimed): after a successful parse every range of the merged
\* manifest satisfies start <= end <= length of the module buffer.
C3_MergedRangesInBounds ==
    ParseSucceeded => \A i \in DOMAIN manifest : InBounds(manifest[i])

\* C3 (amended): parse does not check the ranges; every range for which
\* load_raw returns a slice satisfies start <= end <= length of the buffer.
C3_LoadedRangesInBounds ==
    (last.op = "load_raw" /\ last.res = "some") =>
        /\ last.id \in DOMAIN manifest
        /\ InBounds(manifest[last.id])

C3_Witness ==
    /\ last.op = "load_raw" /\ last.res = "some"
    /\ \E i \in DOMAIN manifest : ~InBounds(manifest[i])

\* C4: load and load_raw of an ID that is not a key of the merged manifest
\* return Ok(None), whatever the buffer holds, and no call of load or load_raw
\* changes the manifest.
C4_UnknownIdIsNone ==
    [][(pc = "ready" /\ last'.op \in {"load", "load_raw"} /\ last' # last) =>
          /\ manifest' = manifest
          /\ (last'.id \notin DOMAIN manifest => last'.res = "none")
          /\ (last'.id \in DOMAIN manifest => last'.res # "none")]_vars

C4_Witness ==
    /\ last.op = "load" /\ last.res = "none"
    /\ manifest # EmptyManifest
    /\ \E i \in DOMAIN manifest : ~InBounds(manifest[i])

\* C5: for an ID of the merged manifest whose range does not lie within the
\* buffer (start > end or end > buffer length), load, load_raw and the
\* iterator's item are errors; a call that returns bytes returns exactly the
\* bytes of the manifest range, which lie inside the buffer.
C5_OutOfRangeIsError ==
    (last.op \in {"load", "load_raw", "next"} /\ last.id \in DOMAIN manifest) =>
        /\ ~InBounds(manifest[last.id]) => last.res = "err"
        /\ last.res = "some" =>
              /\ last.start = manifest[last.id].start
              /\ last.end = manifest[last.id].end
              /\ 0 <= last.start /\ last.end <= module.buflen

C5_Witness ==
    /\ last.op = "next" /\ last.res = "err"
    /\ last.id \in DOMAIN manifest
    /\ manifest[last.id].end > module.buflen

\* the program has come to an end: parse failed or panicked, or strip_module returned
Returned == pc \in {"err", "panic", "strip_err", "stripped"}

\* a section that is not one of the two custom sections of an embedding
NotAsset(s) == ~(s.id = 0 /\ (s.name = "manifest" \/ s.name = "data"))
RECURSIVE Chunks(_)
Chunks(secs) == IF secs = <<>> THEN <<>> ELSE <<SectionChunk(Head(secs))>> \o Chunks(Tail(secs))
\* the sections of the buffer (those it really holds)
InputSecs == SubSeq(module.secs, 1, ScannedCount(idx))

\* C6 (as claimed): when parse and strip_module succeed on M, parse and
\* strip_module on strip(M) succeed too and give the bytes of strip(M) again.
C6_StripIdempotent ==
    (round = 2 /\ Returned) => (pc = "stripped" /\ output = first)

\* C7: the output of strip_module is the module header followed by the
\* sections of the input that are not custom sections with the manifest or the
\* data prefix, each with its id and its bytes, in their order; nothing else
\* is dropped, added or moved.
C7_StripKeepsOtherSections ==
    pc = "stripped" =>
        output = <<HeaderChunk>> \o Chunks(SelectSeq(InputSecs, NotAsset))

C7_Witness ==
    /\ pc = "stripped" /\ round = 1
    /\ \E i, j, k \in 1..Len(module.secs) :
          /\ module.secs[i].name = "manifest"
          /\ module.secs[j].name = "data"
          /\ module.secs[k].name = "other"
    /\ Len(output) = 2

\* the nested modules open before payload k of parse_all
RECURSIVE OpenNested(_, _)
OpenNested(evs, k) ==
    IF k <= 1 THEN 0
    ELSE OpenNested(evs, k - 1)
         + (IF evs[k - 1].ev \in {"ModuleSection", "ComponentSection"} THEN 1
            ELSE IF evs[k - 1].ev = "End" THEN -1 ELSE 0)

RECURSIVE AssetFree(_)
AssetFree(buf) ==
    \A i \in 1..Len(buf) :
        /\ buf[i].kind = "section" => NotAsset(buf[i].sec)
        /\ buf[i].kind = "frame" => AssetFree(buf[i].body)

NestedSecs(secs) == {i \in 1..Len(secs) : secs[i].id = 1}
Frames(buf) == {i \in 1..Len(buf) : buf[i].kind = "frame"}

\* a complete component with a nested core module in which every section is
\* well formed and no embedding lacks one of its two sections
WellFormedNested ==
    /\ round = 1
    /\ module.enc = "component"
    /\ module.buflen = FullLen(module.secs)
    /\ NestedSecs(module.secs) # {}
    /\ \A i \in 1..Len(module.secs) : module.secs[i].ok /\ module.secs[i].id # 4
    /\ \A u \in Uuids :
          (\E i \in 1..Len(module.secs) : module.secs[i].name = "manifest" /\ module.secs[i].uuid = u)
          <=> (\E i \in 1..Len(module.secs) : module.secs[i].name = "data" /\ module.secs[i].uuid = u)

\* C8 (as claimed): in strip_module the stack is as deep as the number of open
\* nested modules; the pass ends at the outermost End with an empty stack and
\* every payload processed, and the output holds no asset section at any
\* depth; a buffer with nested modules is stripped, each nested module
\* becoming one core-module frame of the output.
C8_NestedModulesFramed ==
    /\ pc = "strip" => Len(stack) = OpenNested(ParseAll(module), sidx)
    /\ pc = "stripped" =>
          /\ stack = <<>>
          /\ sidx = Len(ParseAll(module))
          /\ AssetFree(output)
    /\ (WellFormedNested /\ Returned) =>
          /\ pc = "stripped"
          /\ Cardinality(Frames(output)) = Cardinality(NestedSecs(module.secs))

\* the files of a folder tree, each with its path from the root folder
RECURSIVE FilesIn(_, _)
FilesIn(folder, path) ==
    UNION {LET e == folder.entries[n]
           IN  CASE e.kind = "file" -> {[file |-> Append(path, n), f |-> e]}
                 [] e.kind = "dir"  -> FilesIn(e.folder, Append(path, n))
                 [] OTHER           -> {}
           : n \in DOMAIN folder.entries}

\* the files the encoder answers with a record, and those it declines
AcceptedFiles == {x.file : x \in {y \in FilesIn(operation.tree, <<>>) : y.f.answer = "some"}}
DeclinedFiles == {x.file : x \in {y \in FilesIn(operation.tree, <<>>) : y.f.answer = "none"}}

\* the file a record of the data vector was encoded from, by the record's id
FileOfId(data, id) == (CHOOSE r \in {data[k] : k \in 1..Len(data)} : r.id = id).file

\* the leaves of a hierarchy: node, position, name and id
Leaves(hier) ==
    UNION {{[node |-> p, k |-> k, name |-> hier[p][k].name, id |-> hier[p][k].id]
              : k \in 1..Len(hier[p])}
           : p \in DOMAIN hier}

\* the hierarchy of the bundle under the folder's name
BundleHierarchy == operation.bundle.encoded_assets[FolderName]
\* the files whose records the data vector holds
DataFiles(data) == {data[k].file : k \in 1..Len(data)}

EncodeSucceeded == operation.pc = "done"

\* C9: after a successful encode_asset_folder in which the encoder accepts
\* exactly N files, the manifest has N entries under N distinct ids, one per
\* accepted file; a declined file has drawn no id, has no record in the data
\* vector, no manifest entry and no leaf.
C9_OneEntryPerAcceptedFile ==
    EncodeSucceeded =>
        LET N      == Cardinality(AcceptedFiles)
            leaves == Leaves(BundleHierarchy)
            ranges == operation.bundle.manifest.map
        IN  /\ Cardinality(DOMAIN ranges) = N
            /\ {l.id : l \in leaves} = {r.id : r \in {operation.data[k] : k \in 1..Len(operation.data)}}
            /\ {l.id : l \in leaves} = DOMAIN ranges
            /\ Cardinality(leaves) = N
            /\ operation.drawn = N
            /\ Len(operation.bundle.data) = N
            /\ DataFiles(operation.bundle.data) = AcceptedFiles

C9_Witness ==
    /\ EncodeSucceeded
    /\ Cardinality(AcceptedFiles) >= 2
    /\ DeclinedFiles # {}
    /\ \E x \in AcceptedFiles \cup DeclinedFiles : Len(x) = 2

\* the number of bytes of the data vector before the record of file
OffsetOf(data, file) ==
    LET k == CHOOSE i \in 1..Len(data) : data[i].file = file
    IN  DataLen(SubSeq(data, 1, k - 1))
RecordLen(data, file) ==
    (CHOOSE r \in {data[i] : i \in 1..Len(data)} : r.file = file).len

Walking == operation.pc \in {"walk", "done"}

\* C10 (as claimed): at every point of the walk and in the bundle, each
\* manifest range has 0 <= start <= end <= length of the data vector, start
\* being the length of the vector before the record was appended and end the
\* length after it, whatever the order of the entries.
C10_RangesAreBlobOffsets ==
    Walking =>
        \A l \in Leaves(operation.hier) :
            /\ l.id \in DOMAIN operation.manifest
            /\ LET r    == operation.manifest[l.id]
                   file == FileOfId(operation.data, l.id)
               IN  /\ 0 <= r.start
                   /\ r.start <= r.end
                   /\ r.end <= DataLen(operation.data)
                   /\ r.start = OffsetOf(operation.data, file)
                   /\ r.end = r.start + RecordLen(operation.data, file)

\* the data vector only grows at its end, and a range once recorded stays
C10_AppendOnly ==
    [][/\ Len(operation'.data) >= Len(operation.data)
       /\ SubSeq(operation'.data, 1, Len(operation.data)) = operation.data
       /\ \A i \in DOMAIN operation.manifest :
             /\ i \in DOMAIN operation'.manifest
             /\ operation'.manifest[i] = operation.manifest[i]]_vars

\* two records in the data vector, the second one beginning at or after u32::MAX
C10_LongBlob ==
    /\ Walking
    /\ Len(operation.data) >= 2
    /\ DataLen(operation.data) > U32Max

-----------------------------------------------------------------------------
(* Round trip: encode_asset_folder, write_assets and the linker, parse, load *)

\* sections a module may hold before the two sections of the embedding
Prefixes == {NoSecs, <<OtherCustom>>, <<Sec10(2, TRUE)>>}

\* write_assets: the manifest and the data of the bundle as the payloads of
\* two link sections named with one fresh UUID, which the linker emits as
\* custom sections of the module in either order
EmbeddedLayouts(bundle) ==
    LET man  == ManSec("u1", bundle.manifest)
        data == DataSec("u1", DataLen(bundle.data))
    IN  {p \o <<man, data>> : p \in Prefixes} \cup {p \o <<data, man>> : p \in Prefixes}

\* a custom section holds at most u32::MAX bytes
Embed ==
    /\ operation.pc = "done"
    /\ pc = "idle"
    /\ DataLen(operation.bundle.data) <= U32Max
    /\ \E secs \in EmbeddedLayouts(operation.bundle) : module' = Buffer("module", secs, 0)
    /\ pc' = "scan"
    /\ UNCHANGED <<debug, idx, off, offsets, manifest, last, iter, round, sidx,
                   output, stack, first, operation>>

\* the offsets in the data vector at which write_named began and ended a record
RecordSpans(data) ==
    {Range(DataLen(SubSeq(data, 1, k - 1)), DataLen(SubSeq(data, 1, k))) : k \in 1..Len(data)}

\* the offset in the buffer of the payload of its data section
EmbeddedDataStart(m) ==
    LET i == CHOOSE k \in 1..Len(m.secs) : m.secs[k].name = "data"
    IN  FullLen(SubSeq(m.secs, 1, i - 1)) + m.secs[i].hdr

\* what WassetItem::deserialize may answer for the slice r of the buffer: the
\* bytes write_named wrote for one record decode to that record; other bytes
\* may or may not decode
DecodeOutcomes(m, data, r) ==
    IF \E s \in RecordSpans(data) :
          /\ r.start = EmbeddedDataStart(m) + s.start
          /\ r.end = EmbeddedDataStart(m) + s.end
    THEN {TRUE}
    ELSE BOOLEAN

\* WassetParser::load on the module with the embedded bundle, for an id of
\* the bundle
LoadEncoded ==
    /\ pc = "ready"
    /\ operation.pc = "done"
    /\ \E id \in DOMAIN operation.bundle.manifest.map :
          \E decodes \in (IF id \in DOMAIN manifest
                          THEN DecodeOutcomes(module, operation.bundle.data, manifest[id])
                          ELSE {TRUE}) :
              last' = LoadResult("load", module, manifest, id, decodes)
    /\ UNCHANGED <<module, debug, pc, idx, off, offsets, manifest, iter, round, sidx,
                   output, stack, first, operation>>

InitRoundTrip ==
    /\ \E tree \in RootFolders : StartEncode("named", tree)
    /\ module = Buffer("module", NoSecs, 0)
    /\ debug \in BOOLEAN
    /\ pc = "idle"
    /\ idx = 0
    /\ off = 0
    /\ offsets = NoOffsets
    /\ manifest = EmptyManifest
    /\ last = NoCall
    /\ iter = NoIter
    /\ round = 1
    /\ sidx = 0
    /\ output = NoOutput
    /\ stack = <<>>
    /\ first = NoOutput

NextRoundTrip ==
    \/ EncodeStart \/ WalkEntry \/ FolderReturn \/ EncodeFinish
    \/ Embed \/ ScanStep \/ Collect \/ LoadEncoded

\* a folder is encoded, the bundle is embedded in a module, the module is
\* parsed and the assets of the bundle are loaded
SpecRoundTrip == InitRoundTrip /\ [][NextRoundTrip]_vars

\* the bundle has been embedded and the module handed to parse
Embedded == operation.pc = "done" /\ pc # "idle"

\* the file whose record was given the id
FileOf(id) == FileOfId(operation.bundle.data, id)

\* the bytes of the buffer that hold the record of file
RecordSlice(file) ==
    Range(EmbeddedDataStart(module) + OffsetOf(operation.bundle.data, file),
          EmbeddedDataStart(module) + OffsetOf(operation.bundle.data, file)
              + RecordLen(operation.bundle.data, file))

\* C11 (as claimed): when the bundle of encode_asset_folder is embedded as one
\* manifest section and one data section of the same UUID, parse succeeds, and
\* load of every id of the bundle's manifest returns the record the encoder
\* gave for the file of that id: it deserializes exactly the bytes write_named
\* wrote for it.
C11_RoundTrip ==
    /\ (Embedded /\ ParseReturned) => ParseSucceeded
    /\ (Embedded /\ last.op = "load") =>
          /\ last.res = "some"
          /\ Range(last.start, last.end) = RecordSlice(FileOf(last.id))

\* the round trip as far as it holds: when the data section ends below 2^32
C11_RoundTripBelowU32 ==
    (Embedded /\ EmbeddedDataStart(module) + DataLen(operation.bundle.data) <= U32Max)
        => C11_RoundTrip

\* two records have made the round trip
C11_Witness ==
    /\ Embedded
    /\ Len(operation.bundle.data) >= 2
    /\ last.op = "load"
    /\ last.res = "some"
    /\ Range(last.start, last.end) = RecordSlice(FileOf(last.id))
    /\ last.start > EmbeddedDataStart(module)

-----------------------------------------------------------------------------
(* Failures of the encode *)

\* no step of the walk over this folder fails: its metadata file is absent or
\* parses, it can be listed, every file can be read and has a table or nothing
\* as its metadata, the encoder answers each with a record that serializes or
\* with no target, and the same holds of every subdirectory
RECURSIVE NoFailingStep(_)
NoFailingStep(folder) ==
    /\ folder.toml \in {"absent", "ok"}
    /\ folder.listable
    /\ \A n \in DOMAIN folder.entries :
          LET e == folder.entries[n]
          IN  CASE e.kind = "file" ->
                     /\ e.meta # "value"
                     /\ e.readable
                     /\ e.answer \in {"some", "none"}
                     /\ e.answer = "some" => e.writes
                [] e.kind = "dir" -> NoFailingStep(e.folder)
                [] OTHER -> TRUE

EncodeReturned == operation.pc \in {"done", "err"}

\* C12 (as claimed): encode_asset_folder returns a bundle only if no step
\* failed; a metadata entry that is not a table, a malformed metadata file, an
\* I/O failure, an encoder error, a serialization failure or a folder without
\* a resolvable name makes it return a Serialize error and no bundle.
C12_FailureAborts ==
    /\ operation.pc = "done" =>
          /\ operation.root = "named"
          /\ NoFailingStep(operation.tree)
    /\ operation.pc = "err" =>
          /\ operation.error = "Serialize"
          /\ operation.bundle = NoBundle

\* the part of it the code keeps: every failure the walk notices ends the call
\* without a bundle, with a Serialize error or with the encoder's own error
C12_NoticedFailureAborts ==
    /\ operation.pc = "done" =>
          /\ operation.root = "named"
          /\ \/ NoFailingStep(operation.tree)
             \/ operation.tree.toml = "unreadable"
    /\ operation.pc = "err" =>
          /\ operation.error \in {"Serialize", "Deserialize"}
          /\ operation.error = "Deserialize" =>
                \E x \in FilesIn(operation.tree, <<>>) : x.f.answer = "Deserialize"
          /\ operation.bundle = NoBundle

\* a record was written, then a later step failed
C12_Witness ==
    /\ operation.pc = "err"
    /\ Len(operation.data) >= 1
    /\ operation.bundle = NoBundle

-----------------------------------------------------------------------------
(* Malformed and truncated buffers *)

\* the buffer lacks bytes of its last section
Truncated(m) == m.buflen < FullLen(m.secs)
\* the buffer has no module header, lacks bytes, or holds a section wasmparser
\* cannot read
Malformed(m) ==
    \/ m.enc = "bad"
    \/ Truncated(m)
    \/ \E i \in 1..Len(m.secs) : ~m.secs[i].ok

\* the buffer ends inside its code section, after the section's header
CutInCode(m) ==
    /\ m.enc = "module"
    /\ Truncated(m)
    /\ m.secs # <<>>
    /\ m.secs[Len(m.secs)].id = 10
    /\ m.buflen >= FullLen(SubSeq(m.secs, 1, Len(m.secs) - 1)) + m.secs[Len(m.secs)].hdr

\* C13 (as claimed): on a malformed or truncated buffer, one cut off inside
\* its code section included, parse returns a Deserialize error: it does not
\* panic and it returns no parser.
C13_MalformedIsError ==
    (Malformed(module) /\ ParseReturned) => pc = "err"

\* the part of it the code keeps: the same for every buffer that is not cut
\* off inside its code section and whose earlier sections parse
C13_ErrorUnlessCutInCode ==
    (Malformed(module) /\ ParseReturned /\ pc # "err") => CutInCode(module)

\* a buffer cut off inside its code section, and parse at its end
C13_Witness ==
    /\ CutInCode(module)
    /\ ParseReturned
    /\ ScannedCount(idx) = Len(module.secs) - 1

-----------------------------------------------------------------------------
(* The hierarchy and the manifest of a bundle *)

\* the folder a file is in, as the names of the directories from the root
FolderOf(file) == SubSeq(file, 1, Len(file) - 1)
\* the file's own name, <<stem, extension>>
NameOf(file) == file[Len(file)]

\* C14: after a successful encode_asset_folder, every manifest id is the id of
\* exactly one leaf of the hierarchy, every leaf id is a manifest key, the leaf
\* of a file carries the file's name without its extension and sits in the
\* node reached from the root by the names of the file's directories, every
\* accepted file has its leaf, and the one root node is keyed by the folder's
\* own name.
C14_HierarchyMatchesManifest ==
    EncodeSucceeded =>
        LET leaves == Leaves(BundleHierarchy)
            ranges == operation.bundle.manifest.map
            data   == operation.bundle.data
        IN  /\ DOMAIN operation.bundle.encoded_assets = {"assets"}
            /\ \A id \in DOMAIN ranges : Cardinality({l \in leaves : l.id = id}) = 1
            /\ \A l \in leaves :
                  /\ l.id \in DOMAIN ranges
                  /\ l.node = FolderOf(FileOfId(data, l.id))
                  /\ l.name = NameOf(FileOfId(data, l.id))[1]
            /\ \A f \in AcceptedFiles :
                  \E l \in leaves : FileOfId(data, l.id) = f
            /\ \A p \in DOMAIN BundleHierarchy :
                  p = <<>> \/ (Len(p) = 1 /\ operation.tree.entries[p[1]].kind = "dir")

\* two files of one stem in the root folder and a file in the subdirectory,
\* all accepted
C14_Witness ==
    /\ EncodeSucceeded
    /\ \E l1, l2 \in Leaves(BundleHierarchy) :
          l1.node = <<>> /\ l2.node = <<>> /\ l1.id # l2.id /\ l1.name = l2.name
    /\ \E l \in Leaves(BundleHierarchy) : l.node = <<SubDir>>

-----------------------------------------------------------------------------
(* The shift in collect_manifests *)

\* the embeddings with one manifest section that decodes and one data section
WholeEmbeddings ==
    {u \in EmbUuids : /\ Cardinality(ManifestSecs(u)) = 1
                      /\ Cardinality(DataSecs(u)) = 1
                      /\ TheManifestSec(u).man.kind = "map"}

\* the ids that one embedding only has
OwnIds(u) ==
    {i \in DOMAIN LocalMap(u) :
        \A v \in WholeEmbeddings : v # u => i \notin DOMAIN LocalMap(v)}

\* parse has come to the end of the buffer and run collect_manifests
Collected == pc \in {"ready", "iter", "panic"} /\ ~CutInCode(module)

\* C15 (as claimed): collect_manifests shifts every range by the offset of its
\* embedding's data payload in exact arithmetic: the recorded offset is the
\* payload's offset, neither sum wraps or overflows, so the merged range has
\* the length of the local range and keeps start <= end.
C15_ShiftIsExact ==
    Collected =>
        /\ pc # "panic"
        /\ \A u \in WholeEmbeddings :
              /\ offsets[u].data_offset = TrueDataOffset(u)
              /\ \A i \in OwnIds(u) :
                    /\ manifest[i].start = LocalMap(u)[i].start + TrueDataOffset(u)
                    /\ manifest[i].end = LocalMap(u)[i].end + TrueDataOffset(u)
                    /\ manifest[i].end - manifest[i].start
                          = LocalMap(u)[i].end - LocalMap(u)[i].start
                    /\ LocalMap(u)[i].start <= LocalMap(u)[i].end
                          => manifest[i].start <= manifest[i].end

\* the part of it the code keeps: the shift is exact whenever the shifted
\* range of every embedding ends at or below u32::MAX
C15_ExactBelowU32 ==
    (/\ Collected
     /\ EmbUuids = WholeEmbeddings
     /\ \A u \in WholeEmbeddings : \A i \in DOMAIN LocalMap(u) :
           /\ LocalMap(u)[i].start + TrueDataOffset(u) <= U32Max
           /\ LocalMap(u)[i].end + TrueDataOffset(u) <= U32Max)
        => C15_ShiftIsExact

\* an embedding whose ranges were shifted by an offset above zero
C15_Witness ==
    /\ ParseSucceeded
    /\ \E u \in WholeEmbeddings :
          /\ TrueDataOffset(u) > 0
          /\ OwnIds(u) # {}

====
